---- MODULE Spec2Model ----
(***************************************************************************)
(* Length-delimited field codec of prost (bytes and string fields) and the *)
(* ByteString value type.                                                  *)
(*                                                                         *)
(* One destination object is modelled.  Its type (the adapter the generic  *)
(* functions are instantiated with) is fixed at construction: a byte       *)
(* container (Vec<u8> / Bytes) or a text container (String / ByteString).  *)
(* merge is modelled statement by statement, because an unwinding failure  *)
(* may abandon it between any two statements.                              *)
(*                                                                         *)
(* A u64 is kept as ten base-128 limbs, least significant first (the top   *)
(* limb holds bit 63 only), so that lengths up to 2^64-1 are exact.        *)
(***************************************************************************)
EXTENDS Integers, Sequences, FiniteSets, TLC

\* ------------------------------------------------------------------ bounds
\* Longest payload / destination content drawn as an input.
MaxLen == 2
\* Length of the one long value that is encoded (its length varint has two bytes).
LongLen == 128

\* ------------------------------------------------------------ input sets
\* 'h', the two bytes of U+00E9, and nothing else: every sequence over them is
\* an input
PayloadBytes == {104, 195, 169}

RECURSIVE SeqsUpTo(_, _)
SeqsUpTo(S, k) ==
  IF k = 0 THEN {<< >>}
  ELSE LET shorter == SeqsUpTo(S, k - 1)
       IN shorter \cup {Append(s, b) : s \in {t \in shorter : Len(t) = k - 1}, b \in S}

Payloads == SeqsUpTo(PayloadBytes, MaxLen)

LongValue == [i \in 1..LongLen |-> 104]

Tags == {1, 5, 15, 16, 2048, (2^29) - 1}

WireTypes == {"Varint", "SixtyFourBit", "LengthDelimited", "StartGroup", "EndGroup", "ThirtyTwoBit"}

\* ------------------------------------------------------------------- u64
Limbs == 1..10

RECURSIVE NatLimbs(_, _)
NatLimbs(n, k) == IF k = 0 THEN << >> ELSE <<n % 128>> \o NatLimbs(n \div 128, k - 1)

\* usize -> u64 (the cast `buf.remaining() as u64`, `value.len() as u64`)
ToU64(n) == NatLimbs(n, 10)

Zero64 == ToU64(0)

\* a > b on u64
U64Gt(a, b) ==
  \E i \in Limbs : a[i] > b[i] /\ \A j \in Limbs : j > i => a[j] = b[j]

\* u64 -> usize (the cast `len as usize`): the low `bits` bits are kept
AsUsize(a, bits) ==
  IF bits = 64 THEN a
  ELSE [i \in Limbs |-> IF i <= 4 THEN a[i] ELSE IF i = 5 THEN a[5] % 16 ELSE 0]

\* the number a usize holds; used only for values already known to be at most
\* the length of a buffer, which the four low limbs hold exactly
UsizeNat(a) == a[1] + 128 * a[2] + 16384 * a[3] + 2097152 * a[4]

SubSeqFrom(s, i) == SubSeq(s, i, Len(s))

\* ---------------------------------------------------------------- varint
\* encode_varint: seven bits per byte, least significant group first, the
\* continuation bit set on every byte but the last
RECURSIVE EncodeVarintFrom(_, _)
EncodeVarintFrom(u, i) ==
  IF \A j \in Limbs : j > i => u[j] = 0
  THEN <<u[i]>>
  ELSE <<u[i] + 128>> \o EncodeVarintFrom(u, i + 1)

EncodeVarint(u) == EncodeVarintFrom(u, 1)

\* number of significant bits of a limb (0 for 0)
RECURSIVE BitLen(_)
BitLen(x) == IF x = 0 THEN 0 ELSE 1 + BitLen(x \div 2)

\* index of the highest set bit of (u | 1)
HighBit(u) ==
  IF u = Zero64 THEN 0
  ELSE LET top == CHOOSE i \in Limbs : u[i] # 0 /\ \A j \in Limbs : j > i => u[j] = 0
       IN 7 * (top - 1) + BitLen(u[top]) - 1

\* encoded_len_varint: ((((value | 1).leading_zeros() ^ 63) * 9 + 73) / 64)
EncodedLenVarint(u) == (HighBit(u) * 9 + 73) \div 64

\* decode_varint: at most ten bytes; fails on an empty buffer, on a buffer
\* that ends before a byte without the continuation bit, and on a tenth byte
\* that does not fit 64 bits.  `used` is the number of bytes examined.
RECURSIVE DecodeVarintFrom(_, _, _)
DecodeVarintFrom(b, i, acc) ==
  IF i > 10 THEN [ok |-> FALSE, value |-> Zero64, used |-> 10]
  ELSE IF i > Len(b) THEN [ok |-> FALSE, value |-> Zero64, used |-> Len(b)]
  ELSE IF b[i] >= 128 THEN DecodeVarintFrom(b, i + 1, Append(acc, b[i] % 128))
  ELSE IF i = 10 /\ b[i] > 1 THEN [ok |-> FALSE, value |-> Zero64, used |-> 10]
  ELSE [ok |-> TRUE,
        value |-> [j \in Limbs |-> IF j < i THEN acc[j] ELSE IF j = i THEN b[i] ELSE 0],
        used |-> i]

DecodeVarint(b) == DecodeVarintFrom(b, 1, << >>)

\* ------------------------------------------------------------- wire type
WireTypeNum(w) ==
  CASE w = "Varint" -> 0
    [] w = "SixtyFourBit" -> 1
    [] w = "LengthDelimited" -> 2
    [] w = "StartGroup" -> 3
    [] w = "EndGroup" -> 4
    [] w = "ThirtyTwoBit" -> 5

\* key = (tag << 3) | wire_type, as a u64
KeyOf(tag, w) ==
  [i \in Limbs |-> IF i = 1 THEN (tag % 16) * 8 + WireTypeNum(w)
                   ELSE NatLimbs(tag \div 16, 9)[i - 1]]

\* encode_key(tag, wire_type, buf)
EncodeKey(tag, w) == EncodeVarint(KeyOf(tag, w))

\* key_len(tag)
KeyLen(tag) == EncodedLenVarint(KeyOf(tag, "Varint"))

\* check_wire_type(expected, actual)
CheckWireType(expected, actual) == expected = actual

\* ------------------------------------------------------------------ UTF-8
IsCont(x) == x >= 128 /\ x <= 191

\* str::from_utf8 succeeds on b from position i on
RECURSIVE Utf8ValidFrom(_, _)
Utf8ValidFrom(b, i) ==
  IF i > Len(b) THEN TRUE
  ELSE LET first == b[i]
           at(k) == IF i + k <= Len(b) THEN b[i + k] ELSE 0
           rest == {j \in i..Len(b) : b[j] >= 128}
       IN IF first < 128
            \* a run of ASCII bytes is skipped as a whole
            THEN rest = {} \/ Utf8ValidFrom(b, CHOOSE j \in rest : \A k \in rest : j <= k)
          ELSE IF first >= 194 /\ first <= 223
            THEN IsCont(at(1)) /\ Utf8ValidFrom(b, i + 2)
          ELSE IF first >= 224 /\ first <= 239
            THEN /\ \/ first = 224 /\ at(1) >= 160 /\ at(1) <= 191
                    \/ first >= 225 /\ first <= 236 /\ IsCont(at(1))
                    \/ first = 237 /\ at(1) >= 128 /\ at(1) <= 159
                    \/ first >= 238 /\ IsCont(at(1))
                 /\ IsCont(at(2))
                 /\ Utf8ValidFrom(b, i + 3)
          ELSE IF first >= 240 /\ first <= 244
            THEN /\ \/ first = 240 /\ at(1) >= 144 /\ at(1) <= 191
                    \/ first >= 241 /\ first <= 243 /\ IsCont(at(1))
                    \/ first = 244 /\ at(1) >= 128 /\ at(1) <= 143
                 /\ IsCont(at(2))
                 /\ IsCont(at(3))
                 /\ Utf8ValidFrom(b, i + 4)
          ELSE FALSE

Utf8Valid(b) == Utf8ValidFrom(b, 1)
\* ------------------------------------------------------------ more inputs
\* 2^64 - 1
MaxU64 == [i \in Limbs |-> IF i = 10 THEN 1 ELSE 127]

\* 2^32 + 1: does not fit a 32-bit word, and is 1 when narrowed to one
TwoPow32Plus1 == [i \in Limbs |-> IF i = 1 THEN 1 ELSE IF i = 5 THEN 16 ELSE 0]

\* What may stand where the length varint is expected: every length up to one
\* past the longest payload, nothing, a non-canonical two-byte 2, two lengths
\* beyond 32 bits, and eleven continuation bytes.
VarintPrefixes ==
  {EncodeVarint(ToU64(k)) : k \in 0..(MaxLen + 1)}
    \cup {<< >>, <<130, 0>>, EncodeVarint(TwoPow32Plus1), EncodeVarint(MaxU64),
          [i \in 1..11 |-> 255]}

InputBuffers == {p \o q : p \in VarintPrefixes, q \in Payloads}

\* values of the text types (String, &str): valid by construction
Strings == {b \in Payloads : Utf8Valid(b)}

\* content of the output buffer before an encode
Priors == {<< >>, <<255>>}

\* ------------------------------------------------------------------ state
VARIABLES
  adapter,    \* "bytes" (Vec<u8>, Bytes) or "string" (String, ByteString)
  wordBits,   \* width of usize on the target
  value,      \* content of the destination
  pc,         \* "idle", a statement of merge, or "done" (the call has returned)
  op,         \* the call in progress or just finished
  wire_type,  \* merge's argument
  buf,        \* merge's input cursor: the bytes not yet read
  len,        \* the decoded length (u64)
  left,       \* bytes of buf.take(len) not yet copied
  guard,      \* the DropGuard of string::merge is armed
  res,        \* result of the finished call
  out,        \* encode's output buffer
  value0,     \* history: destination when the call started
  buf0,       \* history: input when the call started
  origin,     \* history: "encoded" when buf is the output of encode
  unwound,    \* history: where an unwinding left merge, and the content it found
  enc         \* history: what encode was asked to write

vars == <<adapter, wordBits, value, pc, op, wire_type, buf, len, left, guard, res,
          out, value0, buf0, origin, unwound, enc>>

NoUnwind == [at |-> "none", seen |-> << >>]
NoEnc == [tag |-> 0, value |-> << >>, prior |-> << >>, predicted |-> 0]

InMerge == {"wire", "varint", "bound", "replace", "copy", "utf8"}

Init ==
  /\ adapter \in {"bytes", "string"}
  /\ wordBits \in {32, 64}
  /\ value = << >>
  /\ pc = "idle"
  /\ op = "none"
  /\ wire_type = "LengthDelimited"
  /\ buf = << >>
  /\ len = Zero64
  /\ left = 0
  /\ guard = FALSE
  /\ res = "none"
  /\ out = << >>
  /\ value0 = << >>
  /\ buf0 = << >>
  /\ origin = "none"
  /\ unwound = NoUnwind
  /\ enc = NoEnc

\* ------------------------------------------------------------- ByteString
\* ByteString::clear / String::clear
Clear(v) == << >>

\* DropGuard::drop: self.0.clear()
DropGuardDrop(v) == Clear(v)

\* what the destination holds once merge's frame is left, by return or by
\* unwinding: an armed guard is dropped
LeaveFrame(v, g) == IF g THEN DropGuardDrop(v) ELSE v

\* ------------------------------------------------------------------ merge
\* entry of merge: arguments bound, history taken
Enter(w, b, org, g) ==
  /\ pc' = "wire"
  /\ op' = "merge"
  /\ wire_type' = w
  /\ buf' = b
  /\ buf0' = b
  /\ value0' = value
  /\ origin' = org
  /\ guard' = g
  /\ len' = Zero64
  /\ left' = 0
  /\ res' = "none"
  /\ unwound' = NoUnwind
  /\ UNCHANGED <<adapter, wordBits, value>>

\* bytes::merge called on a byte container
BytesMergeCall ==
  /\ pc = "idle"
  /\ adapter = "bytes"
  /\ \E w \in WireTypes, b \in InputBuffers : Enter(w, b, "raw", FALSE)
  /\ UNCHANGED <<out, enc>>

\* string::merge with no guard armed on entry
StringMergeCallUnguarded ==
  /\ pc = "idle"
  /\ adapter = "string"
  /\ \E w \in WireTypes, b \in InputBuffers : Enter(w, b, "raw", FALSE)
  /\ UNCHANGED <<out, enc>>

\* string::merge: `let drop_guard = DropGuard(value)` comes first
StringMergeCall ==
  /\ pc = "idle"
  /\ adapter = "string"
  /\ \E w \in WireTypes, b \in InputBuffers : Enter(w, b, "raw", TRUE)
  /\ UNCHANGED <<out, enc>>

\* `return Err(e)` of bytes::merge; in string::merge the `?` returns it and the
\* guard is dropped
Fail(e) ==
  /\ pc' = "done"
  /\ res' = e
  /\ value' = LeaveFrame(value, guard)
  /\ guard' = FALSE

\* the length is decoded before the wire type is looked at
MergeCheckWireTypeLate ==
  /\ pc = "wire"
  /\ LET d == DecodeVarint(buf)
     IN IF ~d.ok
          THEN Fail("Malformed") /\ UNCHANGED <<buf, len>>
          ELSE /\ buf' = SubSeqFrom(buf, d.used + 1)
               /\ len' = d.value
               /\ IF CheckWireType("LengthDelimited", wire_type)
                    THEN pc' = "bound" /\ UNCHANGED <<res, value, guard>>
                    ELSE Fail("WireTypeMismatch")
  /\ UNCHANGED <<adapter, wordBits, op, wire_type, left, out, value0, buf0, origin,
                 unwound, enc>>

\* check_wire_type(WireType::LengthDelimited, wire_type)?
MergeCheckWireType ==
  /\ pc = "wire"
  /\ IF CheckWireType("LengthDelimited", wire_type)
       THEN pc' = "varint" /\ UNCHANGED <<res, value, guard>>
       ELSE Fail("WireTypeMismatch")
  /\ UNCHANGED <<adapter, wordBits, op, wire_type, buf, len, left, out, value0, buf0,
                 origin, unwound, enc>>

\* the destination is cleared as soon as the length has been read, before the
\* bounds check
MergeDecodeVarintClearsFirst ==
  /\ pc = "varint"
  /\ LET d == DecodeVarint(buf)
     IN IF d.ok
          THEN /\ len' = d.value
               /\ buf' = SubSeqFrom(buf, d.used + 1)
               /\ pc' = "bound"
               /\ value' = << >>
               /\ UNCHANGED <<res, guard>>
          ELSE /\ Fail("Malformed")
               /\ buf' \in {buf, SubSeqFrom(buf, d.used + 1)}
               /\ UNCHANGED len
  /\ UNCHANGED <<adapter, wordBits, op, wire_type, left, out, value0, buf0, origin,
                 unwound, enc>>

\* let len = decode_varint(buf)?   (what a failed decode_varint has consumed
\* is not fixed: nothing, or the bytes it examined)
MergeDecodeVarint ==
  /\ pc = "varint"
  /\ LET d == DecodeVarint(buf)
     IN IF d.ok
          THEN /\ len' = d.value
               /\ buf' = SubSeqFrom(buf, d.used + 1)
               /\ pc' = "bound"
               /\ UNCHANGED <<res, value, guard>>
          ELSE /\ Fail("Malformed")
               /\ buf' \in {buf, SubSeqFrom(buf, d.used + 1)}
               /\ UNCHANGED len
  /\ UNCHANGED <<adapter, wordBits, op, wire_type, left, out, value0, buf0, origin,
                 unwound, enc>>

\* len > buf.remaining() as u64
Underflow(l, remaining) == U64Gt(l, ToU64(remaining))

\* the length is narrowed to usize before it is compared
MergeBoundNarrowFirst ==
  /\ pc = "bound"
  /\ IF Underflow(AsUsize(len, wordBits), Len(buf))
       THEN Fail("BufferUnderflow") /\ UNCHANGED left
       ELSE /\ left' = UsizeNat(AsUsize(len, wordBits))
            /\ pc' = "replace"
            /\ UNCHANGED <<res, value, guard>>
  /\ UNCHANGED <<adapter, wordBits, op, wire_type, buf, len, out, value0, buf0, origin,
                 unwound, enc>>

\* the whole remaining input is taken, not the first len bytes of it
MergeBoundTakeAll ==
  /\ pc = "bound"
  /\ IF Underflow(len, Len(buf))
       THEN Fail("BufferUnderflow") /\ UNCHANGED left
       ELSE /\ left' = Len(buf)
            /\ pc' = "replace"
            /\ UNCHANGED <<res, value, guard>>
  /\ UNCHANGED <<adapter, wordBits, op, wire_type, buf, len, out, value0, buf0, origin,
                 unwound, enc>>

\* if len > buf.remaining() as u64 { return Err(buffer underflow) }
\* let len = len as usize;  ... buf.take(len)
MergeBound ==
  /\ pc = "bound"
  /\ IF Underflow(len, Len(buf))
       THEN Fail("BufferUnderflow") /\ UNCHANGED left
       ELSE /\ left' = UsizeNat(AsUsize(len, wordBits))
            /\ pc' = "replace"
            /\ UNCHANGED <<res, value, guard>>
  /\ UNCHANGED <<adapter, wordBits, op, wire_type, buf, len, out, value0, buf0, origin,
                 unwound, enc>>

\* the existing content is kept: the payload is appended to it
MergeReplaceAppends ==
  /\ pc = "replace"
  /\ pc' = "copy"
  /\ UNCHANGED <<adapter, wordBits, value, op, wire_type, buf, len, left, guard, res,
                 out, value0, buf0, origin, unwound, enc>>

\* value.replace_with(..), first part: the existing content is dropped
MergeReplace ==
  /\ pc = "replace"
  /\ value' = << >>
  /\ pc' = "copy"
  /\ UNCHANGED <<adapter, wordBits, op, wire_type, buf, len, left, guard, res, out,
                 value0, buf0, origin, unwound, enc>>

\* sizes of the next chunk a Buf may hand out when n bytes are to be taken: a
\* caller's input may be fragmented down to single bytes, the buffer encode
\* has just filled is contiguous
ChunkSizes(n, org) == IF org = "encoded" THEN {n} ELSE {1, n}

\* value.replace_with(..), second part: the Take is drained chunk by chunk
MergeCopyChunk ==
  /\ pc = "copy"
  /\ left > 0
  /\ Len(buf) > 0
  /\ \E k \in ChunkSizes(IF left <= Len(buf) THEN left ELSE Len(buf), origin) :
       /\ value' = value \o SubSeq(buf, 1, k)
       /\ buf' = SubSeqFrom(buf, k + 1)
       /\ left' = left - k
  /\ UNCHANGED <<adapter, wordBits, pc, op, wire_type, len, guard, res, out, value0,
                 buf0, origin, unwound, enc>>

\* Ok(()) of bytes::merge; string::merge goes on to validate
MergeReturnOk ==
  /\ pc = "copy"
  /\ left = 0 \/ Len(buf) = 0
  /\ IF adapter = "string"
       THEN pc' = "utf8" /\ UNCHANGED res
       ELSE pc' = "done" /\ res' = "Ok"
  /\ UNCHANGED <<adapter, wordBits, value, op, wire_type, buf, len, left, guard, out,
                 value0, buf0, origin, unwound, enc>>

\* the guard is forgotten before the validation's result is looked at
StringMergeValidateForgetsFirst ==
  /\ pc = "utf8"
  /\ pc' = "done"
  /\ res' = IF Utf8Valid(value) THEN "Ok" ELSE "InvalidUtf8"
  /\ guard' = FALSE
  /\ UNCHANGED <<adapter, wordBits, value, op, wire_type, buf, len, left, out, value0,
                 buf0, origin, unwound, enc>>

\* match str::from_utf8(drop_guard.0.as_bytes()): Ok forgets the guard, Err
\* returns with the guard still armed
StringMergeValidate ==
  /\ pc = "utf8"
  /\ pc' = "done"
  /\ IF Utf8Valid(value)
       THEN res' = "Ok" /\ UNCHANGED value
       ELSE res' = "InvalidUtf8" /\ value' = LeaveFrame(value, guard)
  /\ guard' = FALSE
  /\ UNCHANGED <<adapter, wordBits, op, wire_type, buf, len, left, out, value0, buf0,
                 origin, unwound, enc>>

\* a panic in the Buf implementation or the allocator abandons merge: the frame
\* is unwound, and an armed guard is dropped on the way
Unwind ==
  /\ pc \in InMerge
  /\ pc' = "done"
  /\ res' = "Unwound"
  /\ unwound' = [at |-> pc, seen |-> value]
  /\ value' = LeaveFrame(value, guard)
  /\ guard' = FALSE
  /\ UNCHANGED <<adapter, wordBits, op, wire_type, buf, len, left, out, value0, buf0,
                 origin, enc>>
\* ----------------------------------------------------------------- encode
\* the length prefix is left out
BytesEncodeNoLen(tag, v) == EncodeKey(tag, "LengthDelimited") \o v

\* bytes::encode: encode_key(tag, LengthDelimited, buf);
\* encode_varint(value.len() as u64, buf); value.append_to(buf)
BytesEncode(tag, v) ==
  EncodeKey(tag, "LengthDelimited") \o EncodeVarint(ToU64(Len(v))) \o v

\* the key is written as the single byte (tag << 3 | 2) as u8
StringEncodeByteKey(tag, v) ==
  <<(tag % 16) * 8 + 2>> \o EncodeVarint(ToU64(Len(v))) \o v

\* string::encode: encode_key(tag, LengthDelimited, buf);
\* encode_varint(value.len() as u64, buf); buf.put_slice(value.as_bytes())
StringEncode(tag, v) ==
  EncodeKey(tag, "LengthDelimited") \o EncodeVarint(ToU64(Len(v))) \o v

\* encoded_len(tag, value), of length_delimited!:
\* key_len(tag) + encoded_len_varint(value.len() as u64) + value.len()
EncodedLen(tag, v) == KeyLen(tag) + EncodedLenVarint(ToU64(Len(v))) + Len(v)

Encoded(tag, v, prior, written) ==
  /\ pc' = "done"
  /\ op' = "encode"
  /\ out' = prior \o written
  /\ enc' = [tag |-> tag, value |-> v, prior |-> prior, predicted |-> EncodedLen(tag, v)]
  /\ res' = "Ok"
  /\ UNCHANGED <<adapter, wordBits, value, wire_type, buf, len, left, guard, value0,
                 buf0, origin, unwound>>

BytesEncodeCall ==
  /\ pc = "idle"
  /\ adapter = "bytes"
  /\ \E tag \in Tags, v \in Payloads \cup {LongValue}, prior \in Priors :
       Encoded(tag, v, prior, BytesEncode(tag, v))

StringEncodeCall ==
  /\ pc = "idle"
  /\ adapter = "string"
  /\ \E tag \in Tags, v \in Strings \cup {LongValue}, prior \in Priors :
       Encoded(tag, v, prior, StringEncode(tag, v))

WireTypeOf(k) == CHOOSE w \in WireTypes : WireTypeNum(w) = k

\* The encoded field is decoded again: decode_key reads the key varint and
\* hands its wire type, with the buffer positioned after the key, to merge.
RoundTripCall ==
  /\ pc = "done"
  /\ op = "encode"
  /\ LET field == SubSeqFrom(out, Len(enc.prior) + 1)
         key == DecodeVarint(field)
     IN /\ key.ok
        /\ key.value[1] % 8 < 6
        /\ Enter(WireTypeOf(key.value[1] % 8), SubSeqFrom(field, key.used + 1),
                 "encoded", adapter = "string")
  /\ UNCHANGED <<out, enc>>

\* --------------------------------------------------- ByteString operations
\* ByteString::clear
ClearCall ==
  /\ pc = "idle"
  /\ adapter = "string"
  /\ pc' = "done"
  /\ op' = "clear"
  /\ value0' = value
  /\ value' = Clear(value)
  /\ res' = "Ok"
  /\ UNCHANGED <<adapter, wordBits, wire_type, buf, len, left, guard, out, buf0, origin,
                 unwound, enc>>

\* the bytes are taken over without validation
TryFromCallUnchecked ==
  /\ pc = "idle"
  /\ adapter = "string"
  /\ \E b \in Payloads :
       /\ buf0' = b
       /\ value' = b
  /\ res' = "Ok"
  /\ pc' = "done"
  /\ op' = "try_from"
  /\ value0' = value
  /\ UNCHANGED <<adapter, wordBits, wire_type, buf, len, left, guard, out, origin,
                 unwound, enc>>

\* TryFrom<Bytes> (and <&[u8]>, <Vec<u8>>, <BytesMut>) for ByteString:
\* str::from_utf8(value)?; Ok(ByteString(value)).  The destination becomes the
\* constructed string; a failed construction yields none.
TryFromCall ==
  /\ pc = "idle"
  /\ adapter = "string"
  /\ \E b \in Payloads :
       /\ buf0' = b
       /\ IF Utf8Valid(b)
            THEN value' = b /\ res' = "Ok"
            ELSE UNCHANGED value /\ res' = "Utf8Error"
  /\ pc' = "done"
  /\ op' = "try_from"
  /\ value0' = value
  /\ UNCHANGED <<adapter, wordBits, wire_type, buf, len, left, guard, out, origin,
                 unwound, enc>>

\* From<&str> / From<String> for ByteString: the argument is text already
FromCall ==
  /\ pc = "idle"
  /\ adapter = "string"
  /\ \E s \in Strings :
       /\ buf0' = s
       /\ value' = s
  /\ res' = "Ok"
  /\ pc' = "done"
  /\ op' = "from"
  /\ value0' = value
  /\ UNCHANGED <<adapter, wordBits, wire_type, buf, len, left, guard, out, origin,
                 unwound, enc>>

\* The caller takes the result and lets go of the call's arguments; the
\* destination lives on.
Return ==
  /\ pc = "done"
  /\ pc' = "idle"
  /\ op' = "none"
  /\ wire_type' = "LengthDelimited"
  /\ buf' = << >>
  /\ len' = Zero64
  /\ left' = 0
  /\ res' = "none"
  /\ out' = << >>
  /\ value0' = << >>
  /\ buf0' = << >>
  /\ origin' = "none"
  /\ unwound' = NoUnwind
  /\ enc' = NoEnc
  /\ UNCHANGED <<adapter, wordBits, value, guard>>

Next ==
  \/ BytesMergeCall
  \/ StringMergeCall
  \/ MergeCheckWireType
  \/ MergeDecodeVarint
  \/ MergeBound
  \/ MergeReplace
  \/ MergeCopyChunk
  \/ MergeReturnOk
  \/ StringMergeValidate
  \/ Unwind
  \/ BytesEncodeCall
  \/ StringEncodeCall
  \/ RoundTripCall
  \/ ClearCall
  \/ TryFromCall
  \/ FromCall
  \/ Return

Spec == Init /\ [][Next]_vars
\* ================================================================ claims
MergeReturned == pc = "done" /\ op = "merge"

MergeErrors == {"WireTypeMismatch", "Malformed", "BufferUnderflow"}

\* the length varint at the head of the input the call was given
Declared == DecodeVarint(buf0)

\* the input after the length varint
AfterLen == SubSeqFrom(buf0, Declared.used + 1)

\* the declared length exceeds what is left after the length varint
DeclaredTooLong == Declared.ok /\ U64Gt(Declared.value, ToU64(Len(AfterLen)))

\* C1: whenever string merge returns an error of any kind (wire type mismatch,
\* malformed varint, buffer underflow, invalid UTF-8), the destination string
\* is empty afterwards, whatever it held before and whatever the input was.
C1_StringMergeErrorClears ==
  (MergeReturned /\ adapter = "string" /\ res \in MergeErrors \cup {"InvalidUtf8"})
    => value = << >>

\* string merge was fed a payload of invalid UTF-8 while the destination held
\* text, and has returned
C1_Witness ==
  /\ MergeReturned
  /\ adapter = "string"
  /\ res = "InvalidUtf8"
  /\ value0 # << >>
  /\ ~Utf8Valid(SubSeq(AfterLen, 1, Len(AfterLen) - Len(buf)))
  /\ value = << >>

\* C2: in string merge the guard is armed from before the byte-level merge
\* starts until UTF-8 validation has run, and a merge abandoned by unwinding
\* at any statement in between leaves the destination string empty.
C2_GuardCoversMerge ==
  /\ (adapter = "string" /\ pc \in InMerge) => guard
  /\ (MergeReturned /\ adapter = "string" /\ res = "Unwound") => value = << >>

\* string merge was abandoned partway through the buffer replace, when the
\* destination held bytes that are not UTF-8 and more were still to be copied
C2_Witness ==
  /\ MergeReturned
  /\ adapter = "string"
  /\ res = "Unwound"
  /\ unwound.at = "copy"
  /\ left > 0
  /\ ~Utf8Valid(unwound.seen)
  /\ value0 # << >>
  /\ value = << >>

\* C3: a ByteString's bytes are valid UTF-8 in every state a caller can
\* observe (no merge in progress): after validated constructions, clear, and
\* string merges that succeed, fail or unwind.
C3_ByteStringIsUtf8 ==
  (adapter = "string" /\ pc \in {"idle", "done"}) => Utf8Valid(value)

\* a string that a merge has filled is kept when a construction from invalid
\* bytes is refused
C3_Witness ==
  /\ adapter = "string"
  /\ pc = "done"
  /\ op = "try_from"
  /\ res = "Utf8Error"
  /\ ~Utf8Valid(buf0)
  /\ value # << >>

\* C4: encoding a value and merging the output, after the key and with the
\* key's wire type, into any destination succeeds and yields the value.
C4_RoundTrip ==
  (MergeReturned /\ origin = "encoded" /\ res # "Unwound")
    => (res = "Ok" /\ value = enc.value /\ wire_type = "LengthDelimited")

\* bytes that are not UTF-8 have made the round trip into a destination that
\* held something else
C4_Witness ==
  /\ MergeReturned
  /\ origin = "encoded"
  /\ adapter = "bytes"
  /\ res = "Ok"
  /\ ~Utf8Valid(enc.value)
  /\ value0 # << >>
  /\ value0 # enc.value
  /\ value = enc.value

\* C5: encoded_len(tag, v) is the number of bytes encode(tag, v, out) appends
\* to out.
C5_LengthAccuracy ==
  (pc = "done" /\ op = "encode") => enc.predicted = Len(out) - Len(enc.prior)

\* a text value with a two-byte length varint was appended, under the largest
\* tag, to a buffer that held something
C5_Witness ==
  /\ pc = "done"
  /\ op = "encode"
  /\ adapter = "string"
  /\ enc.tag = (2^29) - 1
  /\ Len(enc.value) >= 128
  /\ enc.prior # << >>
  /\ enc.predicted = 5 + 2 + Len(enc.value)

\* C6: after a successful merge the destination holds exactly the payload of
\* that merge and nothing of its prior content (the last occurrence wins).
C6_MergeReplaces ==
  (MergeReturned /\ res = "Ok")
    => /\ Declared.ok
       /\ ~DeclaredTooLong
       /\ value = SubSeq(AfterLen, 1, UsizeNat(Declared.value))

\* a merge has succeeded into a destination that held more bytes than the
\* payload, none of them equal to the payload's
C6_Witness ==
  /\ MergeReturned
  /\ res = "Ok"
  /\ Len(value0) > Len(value)
  /\ Len(value) > 0
  /\ \A i \in 1..Len(value0) : value0[i] # value[1]

\* C7: merge fails with BufferUnderflow for every declared length greater than
\* the bytes remaining after the length varint, lengths beyond the platform
\* word included, and reads no payload byte.
C7_UnderflowRejected ==
  (MergeReturned /\ wire_type = "LengthDelimited" /\ res # "Unwound" /\ DeclaredTooLong)
    => (res = "BufferUnderflow" /\ buf = AfterLen)

\* on a 32-bit target a declared length of 2^32 + 1, which narrows to 1, was
\* rejected with payload bytes at hand
C7_Witness ==
  /\ MergeReturned
  /\ res = "BufferUnderflow"
  /\ wordBits = 32
  /\ len = TwoPow32Plus1
  /\ Len(buf) >= 1

\* C8: for every wire type other than LengthDelimited, bytes merge and string
\* merge fail with WireTypeMismatch, whatever the input holds and before any
\* input byte is consumed.
C8_WireTypeCheckedFirst ==
  (MergeReturned /\ wire_type # "LengthDelimited" /\ res # "Unwound")
    => (res = "WireTypeMismatch" /\ buf = buf0)

\* a mismatch was reported on an input whose length varint is malformed
C8_Witness ==
  /\ MergeReturned
  /\ res = "WireTypeMismatch"
  /\ wire_type = "EndGroup"
  /\ buf0 # << >>
  /\ ~Declared.ok

\* C9: on success merge has consumed exactly the length varint and len payload
\* bytes: the destination equals those bytes and the input stands right after
\* them; a declared length equal to the remaining byte count is accepted.
C9_ConsumesExactly ==
  /\ (MergeReturned /\ res = "Ok")
       => /\ Declared.ok
          /\ ~DeclaredTooLong
          /\ value = SubSeq(AfterLen, 1, UsizeNat(Declared.value))
          /\ buf = SubSeqFrom(AfterLen, UsizeNat(Declared.value) + 1)
  /\ (MergeReturned /\ adapter = "bytes" /\ wire_type = "LengthDelimited"
        /\ res # "Unwound" /\ Declared.ok /\ Declared.value = ToU64(Len(AfterLen)))
       => (res = "Ok" /\ buf = << >>)

\* a merge has succeeded and left input bytes after its payload unread
C9_Witness ==
  /\ MergeReturned
  /\ res = "Ok"
  /\ Len(value) > 0
  /\ Len(buf) > 0
  /\ Len(buf0) = Declared.used + Len(value) + Len(buf)

\* C10: whenever bytes merge returns an error (wire type mismatch, malformed
\* varint, buffer underflow) the destination is exactly what it was before the
\* call.
C10_BytesMergeAllOrNothing ==
  (MergeReturned /\ adapter = "bytes" /\ res \in MergeErrors) => value = value0

\* bytes merge has rejected a too long declared length with the destination
\* holding content
C10_Witness ==
  /\ MergeReturned
  /\ adapter = "bytes"
  /\ res = "BufferUnderflow"
  /\ value0 # << >>
  /\ value = value0
====
